---- MODULE Spec2Model ----
(***************************************************************************)
(* Model of keras/layers/advanced_activations.py: the Quorum layer         *)
(* (construction, build, forward pass) and the PReLU layer, together with  *)
(* the optimizer that updates a layer's registered parameters.             *)
(*                                                                         *)
(* Numbers.  Inputs X and activation values f(X) are integers.  Weights    *)
(* (Quorum's activation_weights, PReLU's alphas, thresholds) are fixed     *)
(* point numbers counted in units of 1/Scale, so the float 0.5 is          *)
(* Scale \div 2.  A product weight * f(X), and therefore every layer       *)
(* output, is again in units of 1/Scale: the output 3.0 is 3 * Scale.      *)
(*                                                                         *)
(* Tensors.  A tensor of feature shape (F,) is a sequence of length F.     *)
(* The batch axis is a single row (batch = 1): every operation is          *)
(* element-wise and weights broadcast along the batch axis.                *)
(*                                                                         *)
(* Optional values.  Python's None is the empty tuple and a supplied       *)
(* value v is the 1-tuple <<v>>.                                           *)
(***************************************************************************)
EXTENDS Integers, Sequences, FiniteSets, TLC

VARIABLES
    op,                       \* the operation that produced this state
    \* ---- Quorum ----
    phase,                    \* "new", "constructed", "built" or "failed"
    error,                    \* the exception raised by the constructor
    args,                     \* the arguments the constructor was called with
    activation_fns,           \* self.activation_fns
    activation_weights_init,  \* self.activation_weights_init
    trainable,                \* self.trainable
    threshold,                \* self.threshold
    input_shape,              \* self.input_shape (batch axis first)
    activation_weights,       \* self.activation_weights
    params,                   \* self.params, as indices into activation_weights
    nsteps,                   \* optimizer steps taken so far
    output,                   \* what the last get_output returned, None otherwise
    \* ---- PReLU ----
    p_phase,                  \* "new", "constructed", "built" or "failed"
    p_args,                   \* the arguments the constructor was called with
    init,                     \* name of the initialization scheme
    initial_weights,          \* self.initial_weights
    p_input_shape,            \* self.input_shape of the PReLU layer
    alphas,                   \* self.alphas
    p_nsteps,                 \* optimizer steps taken on the PReLU layer
    p_output                  \* what the last PReLU get_output returned

qvars == <<phase, error, args, activation_fns, activation_weights_init,
           trainable, threshold, input_shape, activation_weights, params,
           nsteps, output>>
pvars == <<p_phase, p_args, init, initial_weights, p_input_shape, alphas, p_nsteps,
           p_output>>
vars == <<op, qvars, pvars>>

----------------------------------------------------------------------------
(* Bounds and input sets *)

MaxK == 2          \* longest activation_fns list tried
MaxFeatures == 2   \* largest feature shape (F,) tried
MaxSteps == 2      \* optimizer steps per layer

Scale == 60        \* the float 1. in weight units

None == <<>>
Some(v) == <<v>>

FnNames == {"relu", "identity"}
\* Explicit initial weights: 0.5, 1.0, 1.5, ... (a different one per function)
Ramp(n) == [k \in 1..n |-> k * (Scale \div 2)]
ThresholdVals == {0, Scale}                             \* 0 and 1.0
StepVals == {-(Scale \div 2), (3 * Scale) \div 2}       \* -0.5 and 1.5
XRow == <<-2, 0, 3>>                                    \* the input row [[-2, 0, 3]]
XVals == {XRow[j] : j \in DOMAIN XRow}
AlphaVals == {-(Scale \div 2), 0, Scale \div 4}         \* -0.5, 0, 0.25
InitNames == {"zero", "one"}

SeqsUpTo(S, n) == UNION {[1..m -> S] : m \in 0..n}
Tensors(S, f) == [1..f -> S]

\* Input rows of f features: XRow rotated, cut or repeated to length f.
Inputs(f) == {[i \in 1..f |-> XRow[((i + r - 1) % Len(XRow)) + 1]] : r \in 0..(Len(XRow) - 1)}

----------------------------------------------------------------------------
(* Backend tensor operations, element level *)

Abs(x) == IF x < 0 THEN -x ELSE x

Relu(x) == IF x > 0 THEN x ELSE 0

Clip(x, lo, hi) == IF x < lo THEN lo ELSE IF x > hi THEN hi ELSE x

Ones(shape) == [i \in 1..shape[1] |-> 1]

ApplyFn(fn, x) == IF fn = "relu" THEN Relu(x) ELSE x

----------------------------------------------------------------------------
(* Quorum.__init__ *)

EmptyFnsError == "AssertionError: Must have at least one activation function!"
LengthError == "AssertionError: Must have the same number of activation functions and weights!"
ZeroDivisionError == "ZeroDivisionError"

HasActivationFns_Off(fns) == Len(fns) >= 0

\* assert(len(self.activation_fns) > 0)
HasActivationFns(fns) == Len(fns) > 0

\* [starting_weight for x in xrange(len(self.activation_fns))]
\* with starting_weight = 1. / len(self.activation_fns)
DefaultWeightsInit(fns) == [x \in 1..Len(fns) |-> Scale \div Len(fns)]

SameLength_AtMost(fns, weights_init) == Len(fns) >= Len(weights_init)

\* assert (len(self.activation_fns) == len(self.activation_weights_init))
SameLength(fns, weights_init) == Len(fns) = Len(weights_init)

\* The fields of the object when the constructor ends, and how it ended.
\* A constructor that raises leaves the fields it assigned before the raise.
QuorumInit(fns, weights_init, tr, thr) ==
    LET fields == [activation_fns |-> fns,
                   activation_weights_init |-> weights_init,
                   trainable |-> tr,
                   threshold |-> thr,
                   phase |-> "failed",
                   error |-> ""]
    IN  IF ~HasActivationFns(fns)
          THEN [fields EXCEPT !.error = EmptyFnsError]
        ELSE IF weights_init = None /\ Len(fns) = 0
          THEN [fields EXCEPT !.error = ZeroDivisionError]
        ELSE LET w == IF weights_init = None
                        THEN DefaultWeightsInit(fns)
                        ELSE weights_init[1]
             IN  IF ~SameLength(fns, w)
                   THEN [fields EXCEPT !.activation_weights_init = Some(w),
                                       !.error = LengthError]
                   ELSE [fields EXCEPT !.activation_weights_init = Some(w),
                                       !.phase = "constructed"]

Construct(fns, weights_init, tr, thr) ==
    /\ phase = "new"
    /\ LET r == QuorumInit(fns, weights_init, tr, thr)
       IN  /\ phase' = r.phase
           /\ error' = r.error
           /\ activation_fns' = r.activation_fns
           /\ activation_weights_init' = r.activation_weights_init
           /\ trainable' = r.trainable
           /\ threshold' = r.threshold
    /\ args' = [activation_fns |-> fns,
                activation_weights_init |-> weights_init,
                trainable |-> tr,
                threshold |-> thr]
    /\ op' = "construct"
    /\ UNCHANGED <<input_shape, activation_weights, params, nsteps, output>>
    /\ UNCHANGED pvars

----------------------------------------------------------------------------
(* Quorum.build *)

BuildWeights_FirstOnly(weights_init, shape) ==
    [k \in 1..Len(weights_init) |->
        [i \in DOMAIN Ones(shape) |-> weights_init[1] * Ones(shape)[i]]]

\* [K.variable(init_val * np.ones(input_shape))
\*  for init_val in self.activation_weights_init]
BuildWeights(weights_init, shape) ==
    [k \in 1..Len(weights_init) |->
        [i \in DOMAIN Ones(shape) |-> weights_init[k] * Ones(shape)[i]]]

BuildParams_Always(tr, weights, old_params) ==
    [k \in 1..Len(weights) |-> k]

\* if self.trainable: self.params = self.activation_weights
BuildParams(tr, weights, old_params) ==
    IF tr THEN [k \in 1..Len(weights) |-> k] ELSE old_params

Build(shape) ==
    /\ phase = "constructed"
    /\ phase' = "built"
    /\ input_shape' = shape
    /\ LET w == BuildWeights(activation_weights_init[1], Tail(shape))
       IN  /\ activation_weights' = w
           /\ params' = BuildParams(trainable, w, params)
    /\ op' = "build"
    /\ UNCHANGED <<error, args, activation_fns, activation_weights_init,
                   trainable, threshold, nsteps, output>>
    /\ UNCHANGED pvars

----------------------------------------------------------------------------
(* Quorum.get_output *)

Truthy_NotNone(thr) == thr # None

\* if self.threshold:
Truthy(thr) == thr # None /\ thr[1] # 0

Multiplier_NoLowerBound(w, thr) ==
    [i \in DOMAIN w |-> IF thr # None /\ thr[1] # 0
                          THEN Clip(w[i], w[i], thr[1]) ELSE w[i]]

\* K.clip(w, 0, self.threshold) when the threshold is truthy, else w
Multiplier(w, thr) ==
    [i \in DOMAIN w |-> IF Truthy(thr) THEN Clip(w[i], 0, thr[1]) ELSE w[i]]

\* for (fn, w) in zip(self.activation_fns, self.activation_weights):
\*     Y_ = Y_ + <multiplier> * fn(X)
\* acc.Y is Y_, acc.used collects the multiplier of each iteration.
RECURSIVE Accumulate(_, _, _, _, _)
Accumulate(acc, fns, ws, thr, X) ==
    IF fns = <<>> \/ ws = <<>>
      THEN acc
      ELSE LET m == Multiplier(Head(ws), thr)
               Y == [i \in DOMAIN X |->
                        acc.Y[i] + m[i] * ApplyFn(Head(fns), X[i])]
           IN  Accumulate([Y |-> Y, used |-> Append(acc.used, m)],
                          Tail(fns), Tail(ws), thr, X)

\* Y_ = X, then the loop, then return Y_
QuorumOutput(fns, ws, thr, X) ==
    Accumulate([Y |-> [i \in DOMAIN X |-> Scale * X[i]], used |-> <<>>],
               fns, ws, thr, X)

GetOutput_Persist(X) ==
    /\ phase = "built"
    /\ LET r == QuorumOutput(activation_fns, activation_weights, threshold, X)
       IN  /\ output' = Some([X |-> X, Y |-> r.Y, used |-> r.used])
           /\ activation_weights' = r.used
    /\ op' = "get_output"
    /\ UNCHANGED <<phase, error, args, activation_fns, activation_weights_init,
                   trainable, threshold, input_shape, params, nsteps>>
    /\ UNCHANGED pvars

GetOutput(X) ==
    /\ phase = "built"
    /\ LET r == QuorumOutput(activation_fns, activation_weights, threshold, X)
       IN  output' = Some([X |-> X, Y |-> r.Y, used |-> r.used])
    /\ op' = "get_output"
    /\ UNCHANGED <<phase, error, args, activation_fns, activation_weights_init,
                   trainable, threshold, input_shape, activation_weights,
                   params, nsteps>>
    /\ UNCHANGED pvars

----------------------------------------------------------------------------
(* The optimizer: one step assigns a new value to an entry of a tensor     *)
(* registered in self.params and to nothing else.                          *)

Registered(ps) == {ps[j] : j \in DOMAIN ps}

OptimizerStep(k, i, v) ==
    /\ phase = "built"
    /\ nsteps < MaxSteps
    /\ nsteps' = nsteps + 1
    /\ activation_weights' =
          IF k \in Registered(params)
            THEN [activation_weights EXCEPT ![k][i] = v]
            ELSE activation_weights
    /\ output' = None
    /\ op' = "step"
    /\ UNCHANGED <<phase, error, args, activation_fns, activation_weights_init,
                   trainable, threshold, input_shape, params>>
    /\ UNCHANGED pvars

----------------------------------------------------------------------------
(* Specification of the Quorum layer *)

NoArgs == [activation_fns |-> <<>>, activation_weights_init |-> None,
           trainable |-> TRUE, threshold |-> None]

Init ==
    /\ op = "new"
    /\ phase = "new"
    /\ error = ""
    /\ args = NoArgs
    /\ activation_fns = <<>>
    /\ activation_weights_init = None
    /\ trainable = TRUE
    /\ threshold = None
    /\ input_shape = <<>>
    /\ activation_weights = <<>>
    /\ params = <<>>
    /\ nsteps = 0
    /\ output = None
    /\ p_phase = "new"
    /\ p_args = [init |-> "zero", weights |-> None]
    /\ init = "zero"
    /\ initial_weights = None
    /\ p_input_shape = <<>>
    /\ alphas = <<>>
    /\ p_nsteps = 0
    /\ p_output = None

InputShapes == {<<1, f>> : f \in 1..MaxFeatures}

\* Length of the feature axis of a shape; 0 while the shape is unknown.
Features(shape) == IF Len(shape) >= 2 THEN shape[2] ELSE 0

Next ==
    \/ \E fns \in SeqsUpTo(FnNames, MaxK),
          w \in {None} \cup {Some(Ramp(n)) : n \in 0..MaxK},
          tr \in BOOLEAN,
          thr \in {None} \cup {Some(t) : t \in ThresholdVals} :
            Construct(fns, w, tr, thr)
    \/ \E shape \in InputShapes : Build(shape)
    \/ \E X \in Inputs(Features(input_shape)) : GetOutput(X)
    \/ \E k \in 1..Len(activation_weights), i \in 1..Features(input_shape),
          v \in StepVals :
            OptimizerStep(k, i, v)

Spec == Init /\ [][Next]_vars

----------------------------------------------------------------------------
(* PReLU *)

ShapeError == "Exception: Layer shape not compatible with weight shape"

\* initializations.get(init)(shape)
InitScheme(name, shape) ==
    [i \in DOMAIN Ones(shape) |-> IF name = "zero" THEN 0 ELSE Scale]

\* self.init = initializations.get(init); self.initial_weights = weights
PConstruct(name, weights) ==
    /\ p_phase = "new"
    /\ p_phase' = "constructed"
    /\ init' = name
    /\ initial_weights' = weights
    /\ p_args' = [init |-> name, weights |-> weights]
    /\ op' = "prelu_construct"
    /\ UNCHANGED <<p_input_shape, alphas, p_nsteps, p_output>>
    /\ UNCHANGED qvars

\* self.set_weights(weights) on params = [self.alphas]: the one array
\* replaces alphas when its shape is that of alphas.
SetWeightsFits(a, weights) == Len(weights) = 1 /\ Len(weights[1]) = Len(a)

\* self.alphas = self.init(input_shape); self.params = [self.alphas]
\* if self.initial_weights is not None: self.set_weights(...); del ...
PBuild(shape) ==
    /\ p_phase = "constructed"
    /\ p_input_shape' = shape
    /\ LET a == InitScheme(init, Tail(shape))
       IN  IF initial_weights = None
             THEN /\ alphas' = a
                  /\ p_phase' = "built"
                  /\ UNCHANGED initial_weights
           ELSE IF SetWeightsFits(a, initial_weights[1])
             THEN /\ alphas' = initial_weights[1][1]
                  /\ p_phase' = "built"
                  /\ initial_weights' = None
           ELSE /\ alphas' = a
                /\ p_phase' = "failed"
                /\ UNCHANGED initial_weights
    /\ op' = "prelu_build"
    /\ UNCHANGED <<p_args, init, p_nsteps, p_output>>
    /\ UNCHANGED qvars

PReLUOutput_NoHalf(a, X) ==
    [i \in DOMAIN X |-> Scale * Relu(X[i]) + a[i] * (X[i] - Abs(X[i]))]

\* pos = K.relu(X); neg = self.alphas * (X - abs(X)) * 0.5; return pos + neg
PReLUOutput(a, X) ==
    [i \in DOMAIN X |->
        Scale * Relu(X[i]) + (a[i] * (X[i] - Abs(X[i]))) \div 2]

PGetOutput(X) ==
    /\ p_phase = "built"
    /\ p_output' = Some([X |-> X, Y |-> PReLUOutput(alphas, X)])
    /\ op' = "prelu_get_output"
    /\ UNCHANGED <<p_phase, p_args, init, initial_weights, p_input_shape,
                   alphas, p_nsteps>>
    /\ UNCHANGED qvars

\* alphas is the layer's one registered parameter
POptimizerStep(i, v) ==
    /\ p_phase = "built"
    /\ p_nsteps < MaxSteps
    /\ p_nsteps' = p_nsteps + 1
    /\ alphas' = [alphas EXCEPT ![i] = v]
    /\ p_output' = None
    /\ op' = "prelu_step"
    /\ UNCHANGED <<p_phase, p_args, init, initial_weights, p_input_shape>>
    /\ UNCHANGED qvars

NextPReLU ==
    \/ \E name \in InitNames,
          w \in {None} \cup {Some(<<a>>) : a \in UNION {Tensors(AlphaVals, f) : f \in 1..MaxFeatures}} :
            PConstruct(name, w)
    \/ \E shape \in InputShapes : PBuild(shape)
    \/ \E X \in Inputs(Features(p_input_shape)) : PGetOutput(X)
    \/ \E i \in 1..Len(alphas), v \in AlphaVals : POptimizerStep(i, v)

SpecPReLU == Init /\ [][NextPReLU]_vars

----------------------------------------------------------------------------
(* Properties *)

K == Len(activation_fns)
F == Features(input_shape)
Out == output[1]
POut == p_output[1]

RECURSIVE WeightedSum(_, _, _)
\* sum over the functions of w_k * f_k(x), for one feature
WeightedSum(fns, ws, x) ==
    IF fns = <<>> THEN 0
    ELSE Head(ws) * ApplyFn(Head(fns), x) + WeightedSum(Tail(fns), Tail(ws), x)

\* the weights of feature i, one per function
Column(ws, i) == [k \in 1..Len(ws) |-> ws[k][i]]

\* C1: without threshold, get_output returns exactly the sum over k of
\* w_k * f_k(X), element-wise, with no other term.
C1_OutputIsWeightedSum ==
    (op = "get_output" /\ threshold = None) =>
        \A i \in 1..F :
            Out.Y[i] = WeightedSum(activation_fns,
                                   Column(activation_weights, i), Out.X[i])

\* C2: with one function f repeated K times, the default weights 1/K, no
\* threshold and no optimizer step, the output equals f(X).
C2_UniformQuorumIsF ==
    (/\ op = "get_output"
     /\ threshold = None
     /\ args.activation_weights_init = None
     /\ nsteps = 0
     /\ \A k \in 1..K : activation_fns[k] = activation_fns[1]) =>
        \A i \in 1..F : Out.Y[i] = Scale * ApplyFn(activation_fns[1], Out.X[i])

\* C3: with a positive threshold T, every multiplier used in a forward pass
\* lies in [0, T]: a stored weight above T is used as T, a stored weight
\* below 0 as 0, and a stored weight in [0, T] unchanged.
C3_MultipliersClipped ==
    (op = "get_output" /\ threshold # None /\ threshold[1] > 0) =>
        /\ Len(Out.used) = K
        /\ \A k \in 1..K : \A i \in 1..F :
              LET w == activation_weights[k][i]
                  m == Out.used[k][i]
                  T == threshold[1]
              IN  /\ 0 <= m /\ m <= T
                  /\ w > T => m = T
                  /\ w < 0 => m = 0
                  /\ (0 <= w /\ w <= T) => m = w

C3_Witness ==
    /\ op = "get_output" /\ threshold # None /\ threshold[1] > 0
    /\ nsteps = 2
    /\ \E k \in 1..K : \E i \in 1..F :
          activation_weights[k][i] > threshold[1] /\ Out.used[k][i] = threshold[1]
    /\ \E k \in 1..K : \E i \in 1..F :
          activation_weights[k][i] < 0 /\ Out.used[k][i] = 0
    /\ \E k \in 1..K : \E i \in 1..F :
          activation_weights[k][i] > 0 /\ Out.used[k][i] = activation_weights[k][i]

\* C4: constructing a Quorum with an empty activation_fns always fails with
\* the "at least one activation function" error, whatever the other
\* arguments; no layer results and no function list is substituted.
C4_EmptyFnsRejected ==
    (phase # "new" /\ args.activation_fns = <<>>) =>
        /\ phase = "failed"
        /\ error = EmptyFnsError
        /\ activation_fns = <<>>

C4_Witness ==
    /\ phase = "failed"
    /\ args.activation_fns = <<>>
    /\ args.activation_weights_init = Some(<<>>)
    /\ ~args.trainable
    /\ args.threshold = Some(Scale)

\* C5: with a non-empty activation_fns, construction fails with the "same
\* number" error when explicit initial weights have another length, and
\* succeeds when the lengths are equal or the weights are omitted.
C5_LengthMismatchRejected ==
    (phase # "new" /\ args.activation_fns # <<>>) =>
        LET w == args.activation_weights_init
            mismatch == w # None /\ Len(w[1]) # Len(args.activation_fns)
        IN  /\ mismatch => (phase = "failed" /\ error = LengthError)
            /\ ~mismatch => (phase \in {"constructed", "built"} /\ error = "")

C5_Witness ==
    /\ phase = "failed"
    /\ error = LengthError
    /\ Len(args.activation_fns) = 2
    /\ args.activation_weights_init = Some(<<>>)

\* C6: right after build the layer holds K weight tensors, in the order of
\* activation_fns, each of the feature shape, every entry of the k-th equal
\* to the k-th initial weight, which is 1/K when the weights were omitted.
C6_BuildAllocatesWeights ==
    op = "build" =>
        /\ Len(activation_weights) = K
        /\ \A k \in 1..K :
              /\ Len(activation_weights[k]) = input_shape[2]
              /\ \A i \in 1..input_shape[2] :
                    IF args.activation_weights_init = None
                      THEN K * activation_weights[k][i] = Scale
                      ELSE activation_weights[k][i] =
                              args.activation_weights_init[1][k]

C6_Witness ==
    /\ op = "build"
    /\ K = 2
    /\ input_shape[2] = 2
    /\ args.activation_weights_init = None
    /\ activation_weights = <<<<Scale \div 2, Scale \div 2>>,
                              <<Scale \div 2, Scale \div 2>>>>

\* C7: a built trainable layer registers exactly its K weight tensors as
\* parameters, a non-trainable one none; the weights of a non-trainable
\* layer keep their initial values through optimizer steps and forward passes.
C7_TrainableRegistersParams ==
    phase = "built" =>
        /\ trainable => params = [k \in 1..K |-> k]
        /\ ~trainable =>
              /\ params = <<>>
              /\ Len(activation_weights) = K
              /\ \A k \in 1..K : \A i \in 1..F :
                    activation_weights[k][i] = activation_weights_init[1][k]

C7_Witness ==
    /\ phase = "built"
    /\ ~trainable
    /\ nsteps = 2
    /\ op = "get_output"
    /\ K = 2

\* C8: a forward pass leaves the stored weights as they are, with or without
\* threshold; once built, only an optimizer step changes them.
C8_ForwardKeepsWeights ==
    [][/\ op' = "get_output" => activation_weights' = activation_weights
       /\ (phase = "built" /\ activation_weights' # activation_weights)
             => op' = "step"]_vars

C8_Witness ==
    /\ op = "get_output"
    /\ Truthy(threshold)
    /\ \E k \in 1..K : \E i \in 1..F :
          /\ activation_weights[k][i] # activation_weights_init[1][k]
          /\ activation_weights[k][i] > threshold[1]
          /\ Out.used[k][i] = threshold[1]

\* C9: PReLU returns x for x >= 0 and alpha * x for x < 0; a layer built with
\* the 'zero' initialization and no explicit weights has alpha = 0 and
\* returns max(x, 0) until the optimizer changes alpha.
C9_PReLUPiecewise ==
    op = "prelu_get_output" =>
        \A i \in 1..Len(POut.X) :
            LET x == POut.X[i]
                y == POut.Y[i]
            IN  /\ x >= 0 => y = Scale * x
                /\ x < 0 => y = alphas[i] * x
                /\ (p_args.init = "zero" /\ p_args.weights = None /\ p_nsteps = 0)
                      => (alphas[i] = 0 /\ y = (IF x >= 0 THEN Scale * x ELSE 0))

C9_Witness ==
    /\ op = "prelu_get_output"
    /\ \E i \in 1..Len(POut.X) :
          POut.X[i] < 0 /\ alphas[i] < 0 /\ POut.Y[i] = Scale
    /\ \E i \in 1..Len(POut.X) : POut.X[i] > 0

\* C10: a threshold of 0 is accepted by the constructor and the forward pass
\* then treats it as no threshold: every stored weight, negative ones
\* included, is used unclipped.
C10_ZeroThresholdIsNoThreshold ==
    (op = "get_output" /\ threshold = Some(0)) =>
        /\ Out.used = activation_weights
        /\ Out.Y = QuorumOutput(activation_fns, activation_weights, None,
                                Out.X).Y

C10_Witness ==
    /\ op = "get_output"
    /\ args.threshold = Some(0)
    /\ threshold = Some(0)
    /\ \E k \in 1..K : \E i \in 1..F :
          activation_weights[k][i] < 0 /\ Out.used[k][i] < 0

====
